---- MODULE Spec2Model ----
(***************************************************************************)
(* cpr2bin.py: conversion between the RIFF based CPR cartridge container   *)
(* and a flat binary image.  A file is a sequence of bytes (0..255).  One  *)
(* behaviour is one use of the program: a CPR file converted to a flat     *)
(* image (convert_cpr_to_bin), a flat image converted to a CPR file and    *)
(* that file converted back (convert_bin_to_cpr, then convert_cpr_to_bin), *)
(* or a block dictionary written by write_cpr_file and read back by        *)
(* read_cpr_blocks.                                                        *)
(***************************************************************************)
EXTENDS Integers, Sequences, FiniteSets, TLC

VARIABLES
    direction,   \* "to-bin", "to-cpr" (sys.argv[1]), "codec" (write_cpr_file, then read_cpr_blocks) or "read" (read_cpr_blocks)
    files,       \* the files on disk, oldest first: files[run] is the input, the output is appended when opened
    run,         \* which conversion this is (the index of its input in files)
    pc,          \* where the running function is
    pos,         \* cpr_file.tell()
    total_size,  \* read_cpr_blocks: the header's size field
    blocks,      \* the blocks dictionary of the running function
    err,         \* the exception raised, "none" while there is none
    blocks0      \* the dictionary given to write_cpr_file in a "codec" behaviour

vars == <<direction, files, run, pc, pos, total_size, blocks, err, blocks0>>

----------------------------------------------------------------------------
(* Constants of the program *)

BLOCK_SIZE == 16384
RIFF_HEADER == <<82, 73, 70, 70>>
CPR_FORM_TYPE == <<65, 77, 83, 33>>
CHUNK_PREFIX == <<99, 98>>
MAX_BLOCKS == 32

(* The exceptions the code raises *)
NotRiff == "ConversionError: Not a valid RIFF file"
NotCpr == "ConversionError: Not a valid CPR file (missing AMS! identifier)"
TooLarge == "ConversionError: Input file too large (max 32 blocks / 512KB supported)"
StructError == "struct.error"
ValueError == "ValueError"

----------------------------------------------------------------------------
(* Python's file and bytes primitives *)

Min(a, b) == IF a < b THEN a ELSE b

\* f.read(n) with the handle at p: the bytes left, at most n; nothing at or past the end
Read(f, p, n) == IF p >= Len(f) THEN <<>> ELSE SubSeq(f, p + 1, Min(p + n, Len(f)))

\* f.tell() after f.read(n) with the handle at p
Tell(f, p, n) == IF p >= Len(f) THEN p ELSE Min(p + n, Len(f))

\* struct.unpack('<I', b)[0]; it raises struct.error unless len(b) = 4
unpack(b) == b[1] + 256 * b[2] + 65536 * b[3] + 16777216 * b[4]

\* struct.pack('<I', n)
pack(n) == <<n % 256, (n \div 256) % 256, (n \div 65536) % 256, (n \div 16777216) % 256>>

\* chunk_id.startswith(CHUNK_PREFIX)
startswith(b, prefix) == Len(b) >= Len(prefix) /\ SubSeq(b, 1, Len(prefix)) = prefix

IsDigit(c) == c \in 48..57
IsSpace(c) == c \in {9, 10, 11, 12, 13, 32}
IsSign(c) == c \in {43, 45}
\* the two-byte UTF-8 encodings of the decimal digits U+0660.., U+06F0.., U+07C0..
IsWideDigit(s) ==
    \/ s[1] = 217 /\ s[2] \in 160..169
    \/ s[1] = 219 /\ s[2] \in 176..185
    \/ s[1] = 223 /\ s[2] \in 128..137

\* int(s.decode()) returns (it raises ValueError otherwise), s being the two bytes chunk_id[2:]
IntOk(s) ==
    /\ Len(s) = 2
    /\ \/ IsDigit(s[1]) /\ IsDigit(s[2])
       \/ (IsSpace(s[1]) \/ IsSign(s[1])) /\ IsDigit(s[2])
       \/ IsDigit(s[1]) /\ IsSpace(s[2])
       \/ IsWideDigit(s)

\* the value int(s.decode()) returns
IntVal(s) ==
    IF IsDigit(s[1]) /\ IsDigit(s[2]) THEN 10 * (s[1] - 48) + (s[2] - 48)
    ELSE IF IsDigit(s[1]) THEN s[1] - 48
    ELSE IF s[1] = 45 THEN 0 - (s[2] - 48)
    ELSE IF IsDigit(s[2]) THEN s[2] - 48
    ELSE IF s[1] = 217 THEN s[2] - 160
    ELSE IF s[1] = 219 THEN s[2] - 176
    ELSE s[2] - 128

\* an empty dict, and d[k] = v
EmptyDict == [k \in {} |-> <<>>]
Put(d, k, v) == [j \in DOMAIN d \cup {k} |-> IF j = k THEN v ELSE d[j]]

SetMin(S) == CHOOSE x \in S : \A y \in S : x <= y

\* sorted(blocks.keys())
RECURSIVE sorted(_)
sorted(S) == IF S = {} THEN <<>> ELSE <<SetMin(S)>> \o sorted(S \ {SetMin(S)})

----------------------------------------------------------------------------
(* read_cpr_blocks *)

\* lines 27-35: the header; the handle ends at pos
ReadHeaderResult(f) ==
    LET magic == Read(f, 0, 4)
        p1 == Tell(f, 0, 4)
        size == Read(f, p1, 4)
        p2 == Tell(f, p1, 4)
        form == Read(f, p2, 4)
        p3 == Tell(f, p2, 4)
    IN  IF magic # RIFF_HEADER THEN [err |-> NotRiff, pos |-> p1, total_size |-> 0]
        ELSE IF Len(size) # 4 THEN [err |-> StructError, pos |-> p2, total_size |-> 0]
        ELSE IF form # CPR_FORM_TYPE THEN [err |-> NotCpr, pos |-> p3, total_size |-> unpack(size)]
        ELSE [err |-> "none", pos |-> p3, total_size |-> unpack(size)]

\* the seek of generic RIFF, which pads odd chunks to an even length
SkipChunkPadded(p, chunk_size) == p + chunk_size + (chunk_size % 2)

\* cpr_file.seek(chunk_size): from the start of the file, not from the handle
SeekAbsolute(p, chunk_size) == chunk_size

\* line 45: cpr_file.seek(chunk_size, 1)
SkipChunk(p, chunk_size) == p + chunk_size

\* line 52: how many bytes of the payload are read as the block
BlockLen(chunk_size) == Min(chunk_size, BLOCK_SIZE)

\* the rest of an oversized chunk left unskipped
NoSkipRest(p, chunk_size) == p

\* lines 56-57: the handle after the block is read, p being the handle after the read
SkipRest(p, chunk_size) == IF chunk_size > BLOCK_SIZE THEN p + (chunk_size - BLOCK_SIZE) ELSE p

\* lines 40-57: one iteration of the loop with the handle at p and the dictionary b
ChunkResult(f, p, b) ==
    LET chunk_id == Read(f, p, 4)
        p1 == Tell(f, p, 4)
        size == Read(f, p1, 4)
        p2 == Tell(f, p1, 4)
    IN  IF Len(size) # 4 THEN [err |-> StructError, pos |-> p2, blocks |-> b]
        ELSE LET chunk_size == unpack(size) IN
          IF ~startswith(chunk_id, CHUNK_PREFIX)
          THEN [err |-> "none", pos |-> SkipChunk(p2, chunk_size), blocks |-> b]
          ELSE IF ~IntOk(SubSeq(chunk_id, 3, Len(chunk_id)))
          THEN [err |-> ValueError, pos |-> p2, blocks |-> b]
          ELSE LET block_num == IntVal(SubSeq(chunk_id, 3, Len(chunk_id)))
                   block_data == Read(f, p2, BlockLen(chunk_size))
                   p3 == Tell(f, p2, BlockLen(chunk_size))
               IN  [err |-> "none", pos |-> SkipRest(p3, chunk_size),
                    blocks |-> Put(b, block_num, block_data)]

\* lines 38-59: the loop run to its end from the handle at p
RECURSIVE ReadLoop(_, _, _, _)
ReadLoop(f, total, p, b) ==
    IF ~(p < total + 8) THEN [err |-> "none", pos |-> p, blocks |-> b]
    ELSE LET r == ChunkResult(f, p, b) IN
         IF r.err # "none" THEN r ELSE ReadLoop(f, total, r.pos, r.blocks)

\* lines 27-59: what read_cpr_blocks returns (err = "none") or raises on the file f
read_cpr_blocks(f) ==
    LET h == ReadHeaderResult(f) IN
    IF h.err # "none" THEN [err |-> h.err, pos |-> h.pos, blocks |-> EmptyDict]
    ELSE ReadLoop(f, h.total_size, h.pos, EmptyDict)

----------------------------------------------------------------------------
(* write_cpr_file *)

\* the decimal digits of n >= 0, as ASCII bytes
RECURSIVE Digits(_)
Digits(n) == IF n < 10 THEN <<48 + n>> ELSE Digits(n \div 10) \o <<48 + (n % 10)>>

\* f"{block_num}".encode(): no zero fill
FormatPlain(n) == IF n < 0 THEN <<45>> \o Digits(0 - n) ELSE Digits(n)

\* line 81: f"{block_num:02d}".encode(): sign and digits, zero-filled to a width of at least 2
Format02d(n) ==
    IF n < 0 THEN <<45>> \o Digits(0 - n)
    ELSE IF n < 10 THEN <<48>> \o Digits(n)
    ELSE Digits(n)

\* lines 69-71: 4 for the form type, 8 + len(data) for every block
RECURSIVE SumSizes(_, _)
SumSizes(b, S) ==
    IF S = {} THEN 0
    ELSE LET k == CHOOSE x \in S : TRUE IN 8 + Len(b[k]) + SumSizes(b, S \ {k})

\* the 4 bytes of the form type left out
TotalSizeNoForm(b) == SumSizes(b, DOMAIN b)

TotalSize(b) == 4 + SumSizes(b, DOMAIN b)

\* lines 81-84: the chunk written for block block_num
WriteChunk(block_num, data) == CHUNK_PREFIX \o Format02d(block_num) \o pack(Len(data)) \o data

\* lines 79-84: the chunks of the keys ks[i..], ks being sorted(blocks.keys())
RECURSIVE WriteChunks(_, _, _)
WriteChunks(b, ks, i) ==
    IF i > Len(ks) THEN <<>> ELSE WriteChunk(ks[i], b[ks[i]]) \o WriteChunks(b, ks, i + 1)

\* lines 69-84: everything write_cpr_file writes to output_file
write_cpr_file(b) ==
    RIFF_HEADER \o pack(TotalSize(b)) \o CPR_FORM_TYPE \o WriteChunks(b, sorted(DOMAIN b), 1)

----------------------------------------------------------------------------
(* convert_cpr_to_bin and convert_bin_to_cpr *)

Zeros(n) == [i \in 1..n |-> 0]

\* a block written as it is
NoPad(data) == data

\* lines 96-97: pad a block to 16KB
PadBlock(data) == IF Len(data) < BLOCK_SIZE THEN data \o Zeros(BLOCK_SIZE - Len(data)) ELSE data

\* lines 93-98: the padded blocks of the keys ks[i..], ks being sorted(blocks.keys())
RECURSIVE WriteBlocks(_, _, _)
WriteBlocks(b, ks, i) ==
    IF i > Len(ks) THEN <<>> ELSE PadBlock(b[ks[i]]) \o WriteBlocks(b, ks, i + 1)

\* lines 92-98: everything convert_cpr_to_bin writes to bin_file
BinImage(b) == WriteBlocks(b, sorted(DOMAIN b), 1)

\* the last, shorter block not counted
total_blocks_floor(n) == n \div BLOCK_SIZE

\* line 118
total_blocks(n) == (n + BLOCK_SIZE - 1) \div BLOCK_SIZE

\* lines 125-127: bin_data[start:end]
BlockSlice(bin_data, block_num) ==
    SubSeq(bin_data, block_num * BLOCK_SIZE + 1, Min((block_num + 1) * BLOCK_SIZE, Len(bin_data)))

\* lines 123-129: the dictionary built from bin_data
SplitBlocks(bin_data) ==
    [block_num \in {k \in 0..(total_blocks(Len(bin_data)) - 1) : Len(BlockSlice(bin_data, k)) > 0}
        |-> BlockSlice(bin_data, block_num)]

----------------------------------------------------------------------------
(* The inputs: CPR files, flat images and block dictionaries *)

\* the longest chunk list of a generated CPR file, and the most blocks of a generated dictionary
MaxChunks == 2
MaxKeys == 3

\* n bytes: first + step, first + 2 * step, ...
Payload(first, step, n) == [i \in 1..n |-> (first + step * i) % 256]

Chunk(tag, size, data) == tag \o pack(size) \o data
Container(magic, total, form, body) == magic \o pack(total) \o form \o body
\* f without its last d bytes
Truncate(f, d) == SubSeq(f, 1, IF Len(f) > d THEN Len(f) - d ELSE 0)

Tag(c1, c2) == CHUNK_PREFIX \o <<c1, c2>>
LIST == <<76, 73, 83, 84>>
\* cb00, cb02, 'cb 5', cbxy, LIST
SmallTags == {Tag(48, 48), Tag(48, 50), Tag(32, 53), Tag(120, 121), LIST}
SmallSizes == {0, 3}
\* 'cb+5', 'cb-1', 'cb5 ', cb5x, 'cb' + U+0663, 'cb' + bytes that are no UTF-8, 'c' 'B' '0' '0'
OddTags == {Tag(43, 53), Tag(45, 49), Tag(53, 32), Tag(53, 120), Tag(217, 163), Tag(255, 254),
            <<99, 66, 48, 48>>}
BigSizes == {BLOCK_SIZE, BLOCK_SIZE + 1, 20000}
HugeSize == 1073741824

\* the chunks cs[i..], each payload as long as its size field says
RECURSIVE Body(_, _)
Body(cs, i) ==
    IF i > Len(cs) THEN <<>>
    ELSE Chunk(cs[i].tag, cs[i].size, Payload(16 * i, 1, cs[i].size)) \o Body(cs, i + 1)

ChunkLists == UNION {[1..n -> [tag : SmallTags, size : SmallSizes]] : n \in 0..MaxChunks}

\* the container's size field: what the body needs (t = 0), one more (t = 1), or 4: no chunk (t = 4)
Total(body, t) == IF t = 4 THEN 4 ELSE 4 + Len(body) + t

\* short chunk lists; the size field right or not; the file whole or cut short by 1, 5 or 9 bytes
SmallCprFiles ==
    {Truncate(Container(RIFF_HEADER, Total(Body(x[1], 1), x[2]), CPR_FORM_TYPE, Body(x[1], 1)), x[3]) :
        x \in ChunkLists \X {0, 1, 4} \X {0, 1, 5, 9}}

\* a wrong RIFF or form type tag
BadMagicFiles ==
    {Container(m[1], 4 + Len(b), m[2], b) :
        m \in {<<<<82, 73, 70, 71>>, CPR_FORM_TYPE>>, <<RIFF_HEADER, <<65, 77, 83, 63>>>>},
        b \in {<<>>, Chunk(Tag(48, 48), 3, Payload(0, 1, 3))}}

\* an unusual tag, then cb00
OddTagFiles ==
    {Container(RIFF_HEADER, 4 + 11 + 9, CPR_FORM_TYPE,
               Chunk(t, 3, Payload(16, 1, 3)) \o Chunk(Tag(48, 48), 1, <<7>>)) : t \in OddTags}

\* a chunk of 16KB or more, then cb02 or nothing; whole or cut short
BigCprFiles ==
    {Truncate(Container(RIFF_HEADER, 4 + 8 + n + Len(b), CPR_FORM_TYPE,
                        Chunk(t, n, Payload(1, 1, n)) \o b), d) :
        t \in {Tag(48, 48), LIST}, n \in BigSizes,
        b \in {<<>>, Chunk(Tag(48, 50), 3, Payload(32, 1, 3))}, d \in {0, 1, 4000}}

\* a size field far larger than the file
HugeCprFiles ==
    {Container(RIFF_HEADER, t, CPR_FORM_TYPE, Chunk(tg, HugeSize, Payload(16, 1, 3))) :
        tg \in {Tag(48, 48), LIST}, t \in {4 + 8 + 3, 4 + 8 + HugeSize}}

\* cb00, a chunk that is no cartridge block, then cb02 or cb00 again
SkipFiles ==
    {Container(RIFF_HEADER, 4 + 11 + 8 + n + 11, CPR_FORM_TYPE,
               Chunk(Tag(48, 48), 3, Payload(16, 1, 3)) \o Chunk(t, n, Payload(32, 1, n))
                   \o Chunk(u, 3, Payload(48, 1, 3))) :
        t \in {LIST, <<99, 66, 48, 48>>}, n \in {0, 1, 3, 5}, u \in {Tag(48, 48), Tag(48, 50)}}

CprFiles ==
    SmallCprFiles \cup BadMagicFiles \cup OddTagFiles \cup SkipFiles \cup BigCprFiles \cup HugeCprFiles

\* a flat image of n bytes
Image(n, step) == [i \in 1..n |-> (i * step) % 251]
Images ==
    {Image(n, s) : n \in {0, 1, BLOCK_SIZE - 1, BLOCK_SIZE, BLOCK_SIZE + 1, 2 * BLOCK_SIZE}, s \in {0, 1}}
    \cup {Image(n, 1) : n \in {MAX_BLOCKS * BLOCK_SIZE, MAX_BLOCKS * BLOCK_SIZE + 1,
                               (MAX_BLOCKS + 1) * BLOCK_SIZE}}

Keys == {0, 7, 10, 99}
SmallDicts ==
    UNION {{[k \in S |-> Payload(k, 1, L[k])] : L \in [S -> {0, 1, 3}]} :
              S \in {T \in SUBSET Keys : Cardinality(T) <= MaxKeys}}
BigDicts ==
    {(0 :> Payload(0, 0, BLOCK_SIZE)) @@ (1 :> Payload(255, 0, 100)),
     (0 :> Payload(0, 1, BLOCK_SIZE)) @@ (31 :> Payload(9, 1, BLOCK_SIZE)),
     (5 :> Payload(3, 1, BLOCK_SIZE - 1))}
Dicts == SmallDicts \cup BigDicts

----------------------------------------------------------------------------
(* The program *)

Init ==
    /\ pos = 0
    /\ total_size = 0
    /\ err = "none"
    /\ \/ /\ direction = "to-bin"
          /\ \E f \in CprFiles : files = <<f>>
          /\ run = 1
          /\ pc = "header"
          /\ blocks = EmptyDict
          /\ blocks0 = EmptyDict
       \/ /\ direction = "to-cpr"
          /\ \E f \in Images : files = <<f>>
          /\ run = 1
          /\ pc = "split"
          /\ blocks = EmptyDict
          /\ blocks0 = EmptyDict
       \/ /\ direction = "codec"
          /\ files = <<>>
          /\ run = 0
          /\ pc = "encode"
          /\ \E b \in Dicts : blocks = b /\ blocks0 = b

\* read_cpr_blocks, lines 27-37: the header is read and is right
ReadHeader ==
    /\ pc = "header"
    /\ LET r == ReadHeaderResult(files[run]) IN
        /\ r.err = "none"
        /\ pos' = r.pos
        /\ total_size' = r.total_size
    /\ blocks' = EmptyDict
    /\ pc' = "loop"
    /\ UNCHANGED <<direction, files, run, err, blocks0>>

\* convert_cpr_to_bin with the output opened together with the input, before it is read
ReadHeaderFailsOutputOpen ==
    /\ pc = "header"
    /\ LET r == ReadHeaderResult(files[run]) IN
        /\ r.err # "none"
        /\ pos' = r.pos
        /\ total_size' = r.total_size
        /\ err' = r.err
    /\ files' = Append(files, <<>>)
    /\ pc' = "error"
    /\ UNCHANGED <<direction, run, blocks, blocks0>>

\* read_cpr_blocks, lines 27-35: the header raises; lines 103-108 print the error
ReadHeaderFails ==
    /\ pc = "header"
    /\ LET r == ReadHeaderResult(files[run]) IN
        /\ r.err # "none"
        /\ pos' = r.pos
        /\ total_size' = r.total_size
        /\ err' = r.err
    /\ pc' = "error"
    /\ UNCHANGED <<direction, files, run, blocks, blocks0>>

\* read_cpr_blocks, lines 38-57: one iteration of the loop
ReadChunk ==
    /\ pc = "loop"
    /\ pos < total_size + 8
    /\ LET r == ChunkResult(files[run], pos, blocks) IN
        /\ pos' = r.pos
        /\ blocks' = r.blocks
        /\ err' = r.err
        /\ pc' = IF r.err = "none" THEN "loop" ELSE "error"
    /\ UNCHANGED <<direction, files, run, total_size, blocks0>>

\* read_cpr_blocks, lines 38 and 59: the loop ends and the dictionary is returned
ReturnBlocks ==
    /\ pc = "loop"
    /\ ~(pos < total_size + 8)
    /\ pc' = "decoded"
    /\ UNCHANGED <<direction, files, run, pos, total_size, blocks, err, blocks0>>

\* convert_cpr_to_bin, lines 92-101: the output is opened and the padded blocks written
WriteBin ==
    /\ pc = "decoded"
    /\ direction = "to-bin"
    /\ files' = Append(files, BinImage(blocks))
    /\ pc' = "done"
    /\ UNCHANGED <<direction, run, pos, total_size, blocks, err, blocks0>>

\* convert_bin_to_cpr, lines 114-129: the image is read and cut into blocks, or is too large
ReadBin ==
    /\ pc = "split"
    /\ IF total_blocks(Len(files[run])) > MAX_BLOCKS
       THEN /\ err' = TooLarge
            /\ pc' = "error"
            /\ UNCHANGED blocks
       ELSE /\ blocks' = SplitBlocks(files[run])
            /\ pc' = "encode"
            /\ UNCHANGED err
    /\ UNCHANGED <<direction, files, run, pos, total_size, blocks0>>

\* convert_bin_to_cpr, lines 132-136: the output is opened and write_cpr_file writes it;
\* in a "codec" behaviour the file written is the one read_cpr_blocks then reads
WriteCpr ==
    /\ pc = "encode"
    /\ files' = Append(files, write_cpr_file(blocks))
    /\ IF direction = "codec"
       THEN pc' = "header" /\ run' = run + 1
       ELSE pc' = "done" /\ UNCHANGED run
    /\ UNCHANGED <<direction, pos, total_size, blocks, err, blocks0>>

\* main, lines 151-156: the program is run again, with --to-bin, on the CPR file it wrote
ConvertBack ==
    /\ pc = "done"
    /\ direction = "to-cpr"
    /\ direction' = "to-bin"
    /\ run' = run + 1
    /\ pc' = "header"
    /\ pos' = 0
    /\ total_size' = 0
    /\ blocks' = EmptyDict
    /\ UNCHANGED <<files, err, blocks0>>

Next ==
    \/ ReadHeader
    \/ ReadHeaderFails
    \/ ReadChunk
    \/ ReturnBlocks
    \/ WriteBin
    \/ ReadBin
    \/ WriteCpr
    \/ ConvertBack

Spec == Init /\ [][Next]_vars

\* read_cpr_blocks alone, called on a CPR file of at most a few chunks
ReadInit ==
    /\ direction = "read"
    /\ \E f \in CprFiles \ BigCprFiles : files = <<f>>
    /\ run = 1
    /\ pc = "header"
    /\ pos = 0
    /\ total_size = 0
    /\ err = "none"
    /\ blocks = EmptyDict
    /\ blocks0 = EmptyDict

ReadNext ==
    \/ ReadHeader
    \/ ReadHeaderFails
    \/ ReadChunk
    \/ ReturnBlocks

\* the function runs on: whatever step is possible is taken
FairReadSpec == ReadInit /\ [][ReadNext]_vars /\ WF_vars(ReadNext)

TypeOK ==
    /\ direction \in {"to-bin", "to-cpr", "codec", "read"}
    /\ pc \in {"header", "loop", "decoded", "split", "encode", "done", "error"}
    /\ run \in 0..2
    /\ Len(files) \in {run, run + 1}
    /\ pos >= 0
    /\ (pc = "error") = (err # "none")

----------------------------------------------------------------------------
(* What the claims speak of *)

\* the file being read, and the chunk header at the handle
Input == files[run]
InLoop == pc = "loop" /\ pos < total_size + 8
HeaderWhole == pos + 8 <= Len(Input)
ChunkId == SubSeq(Input, pos + 1, pos + 4)
ChunkSize == unpack(SubSeq(Input, pos + 5, pos + 8))
IsCartridge == SubSeq(ChunkId, 1, 2) = <<99, 98>>
TwoDigits == ChunkId[3] \in 48..57 /\ ChunkId[4] \in 48..57
PayloadWhole == pos + 8 + ChunkSize <= Len(Input)
OutputExists == Len(files) = run + 1
Output == files[run + 1]

\* the little-endian 32 bit number at f[i..i+3]
U32(f, i) == f[i] + 256 * f[i + 1] + 65536 * f[i + 2] + 16777216 * f[i + 3]

\* the bytes the blocks below index k take in a CPR file
RECURSIVE BytesBelow(_, _)
BytesBelow(b, k) ==
    IF \A j \in DOMAIN b : j >= k THEN 0
    ELSE LET j == CHOOSE i \in DOMAIN b : i < k /\ \A h \in DOMAIN b : h < k => h <= i
         IN  BytesBelow(b, j) + 8 + Len(b[j])

\* f is the CPR file of the dictionary b, indices 0..99
IsCprOf(f, b) ==
    /\ Len(f) = 12 + BytesBelow(b, 100)
    /\ SubSeq(f, 1, 4) = <<82, 73, 70, 70>>
    /\ U32(f, 5) = 4 + BytesBelow(b, 100)
    /\ U32(f, 5) = Len(f) - 8
    /\ SubSeq(f, 9, 12) = <<65, 77, 83, 33>>
    /\ \A k \in DOMAIN b :
        LET at == 12 + BytesBelow(b, k) IN
        /\ SubSeq(f, at + 1, at + 4) = <<99, 98, 48 + (k \div 10), 48 + (k % 10)>>
        /\ U32(f, at + 5) = Len(b[k])
        /\ SubSeq(f, at + 9, at + 8 + Len(b[k])) = b[k]

\* C1: a dictionary with indices in 0..99 and payloads of 0..16384 bytes, written by
\* write_cpr_file and read back by read_cpr_blocks, comes back unchanged: no error, the
\* same indices, the same bytes for each.
C1_RoundTrip ==
    direction = "codec" => /\ pc # "error"
                           /\ pc = "decoded" => blocks = blocks0

C1_Witness ==
    /\ direction = "codec"
    /\ pc = "decoded"
    /\ blocks = blocks0
    /\ Cardinality(DOMAIN blocks0) >= 2
    /\ 99 \in DOMAIN blocks0
    /\ \E k \in DOMAIN blocks0 : Len(blocks0[k]) = 0

\* C8: write_cpr_file writes RIFF, the size 4 + the sum of 8 + len(data) in little-endian,
\* AMS!, then for each index in ascending order the tag cb + two digits, the payload length
\* in little-endian and the payload, unpadded; the size field is the number of bytes
\* written after the first 8.
C8_EncodeLayout ==
    /\ (direction = "to-cpr" /\ pc = "done") => IsCprOf(Output, blocks)
    /\ (direction = "codec" /\ run = 1) => IsCprOf(files[1], blocks0)

\* the dictionary {0: 16384 zero bytes, 1: 100 bytes 0xFF} gives 16512 bytes, cb00 at
\* bytes 12..15, the length 16384 as 00 40 00 00 at 16..19 and 100 bytes 0xFF at the end
C8_Witness ==
    /\ direction = "codec"
    /\ run = 1
    /\ DOMAIN blocks0 = {0, 1}
    /\ blocks0[0] = [i \in 1..16384 |-> 0]
    /\ blocks0[1] = [i \in 1..100 |-> 255]
    /\ Len(files[1]) = 12 + (8 + 16384) + (8 + 100)
    /\ SubSeq(files[1], 13, 20) = <<99, 98, 48, 48, 0, 64, 0, 0>>
    /\ \A i \in (Len(files[1]) - 99)..Len(files[1]) : files[1][i] = 255

\* C2: a flat image within the 32 block limit, converted to CPR and back, comes out as the
\* image followed by zero bytes up to the next multiple of 16384 (nothing added when the
\* length is a multiple already, 0 included), and neither conversion fails.
C2_FlatRoundTrip ==
    /\ (direction = "to-cpr" /\ Len(files[1]) <= MAX_BLOCKS * BLOCK_SIZE) => pc # "error"
    /\ (direction = "to-bin" /\ run = 2) =>
          /\ pc # "error"
          /\ pc = "done" =>
               files[3] = files[1] \o [i \in 1..((BLOCK_SIZE - (Len(files[1]) % BLOCK_SIZE)) % BLOCK_SIZE) |-> 0]

C2_Witness ==
    /\ direction = "to-bin"
    /\ run = 2
    /\ pc = "done"
    /\ Len(files[1]) = BLOCK_SIZE + 1
    /\ Len(files[3]) = 2 * BLOCK_SIZE
    /\ files[1][BLOCK_SIZE + 1] # 0

\* C3: a conversion that fails, in either direction, has opened no output file.
C3_NoOutputOnFailure == pc = "error" => ~OutputExists

\* a block had been decoded when the malformed tag was met
C3_Witness ==
    /\ pc = "error"
    /\ err = ValueError
    /\ DOMAIN blocks # {}
    /\ ~OutputExists

\* C4: in the decode loop a chunk whose tag starts with cb and does not end in two ASCII
\* digits raises the malformed tag error, and no block is inserted for it.
C4_MalformedTagRejected ==
    [][(InLoop /\ HeaderWhole /\ IsCartridge /\ ~TwoDigits) => (err' = ValueError /\ blocks' = blocks)]_vars

\* C5: in the decode loop a chunk whose payload the stream ends before (the skipped part of
\* a chunk that is no cartridge block, and of one larger than 16384, included) raises the
\* end of file error.  (Chunks with a malformed cartridge tag are C4's.)
C5_TruncatedRejected ==
    [][(InLoop /\ HeaderWhole /\ ~PayloadWhole /\ (IsCartridge => TwoDigits)) => err' = StructError]_vars

\* the input f from its 12th byte on is whole chunks up to its end
RECURSIVE WholeChunksFrom(_, _)
WholeChunksFrom(f, p) ==
    \/ p = Len(f)
    \/ /\ p + 8 <= Len(f)
       /\ f[p + 8] < 128
       /\ p + 8 + U32(f, p + 5) <= Len(f)
       /\ WholeChunksFrom(f, p + 8 + U32(f, p + 5))

WellFormed(f) ==
    /\ Len(f) >= 12
    /\ SubSeq(f, 1, 4) = <<82, 73, 70, 70>>
    /\ SubSeq(f, 9, 12) = <<65, 77, 83, 33>>
    /\ f[8] < 128
    /\ U32(f, 5) = Len(f) - 8
    /\ WholeChunksFrom(f, 12)

\* the chunks of a well-formed f from p on whose tag starts with cb
RECURSIVE CartridgeChunksFrom(_, _)
CartridgeChunksFrom(f, p) ==
    IF p >= Len(f) THEN <<>>
    ELSE (IF SubSeq(f, p + 1, p + 2) = <<99, 98>> THEN SubSeq(f, p + 1, p + 8 + U32(f, p + 5)) ELSE <<>>)
         \o CartridgeChunksFrom(f, p + 8 + U32(f, p + 5))

\* a well-formed f with the chunks that are no cartridge blocks removed and the size adjusted
WithoutOthers(f) ==
    LET body == CartridgeChunksFrom(f, 12)
    IN  <<82, 73, 70, 70>> \o pack(4 + Len(body)) \o <<65, 77, 83, 33>> \o body

\* C6: a well-formed CPR file decodes to what the same file without its chunks that are no
\* cartridge blocks decodes to; such a chunk inserts nothing and moves the handle chunk_size
\* bytes past its header, whatever its size.
C6_OthersSkipped ==
    /\ [](direction = "to-bin" /\ run = 1 /\ pc \in {"decoded", "error"} /\ WellFormed(Input) =>
            LET r == read_cpr_blocks(WithoutOthers(Input)) IN r.err = err /\ r.blocks = blocks)
    /\ [][(InLoop /\ HeaderWhole /\ ~IsCartridge) =>
            (err' = "none" /\ blocks' = blocks /\ pos' = pos + 8 + ChunkSize)]_vars

\* cb00, a chunk of odd size that is no cartridge block, cb02
C6_Witness ==
    /\ direction = "to-bin"
    /\ run = 1
    /\ pc = "decoded"
    /\ WellFormed(Input)
    /\ Len(Input) = 12 + 11 + 13 + 11
    /\ SubSeq(Input, 13, 16) = <<99, 98, 48, 48>>
    /\ SubSeq(Input, 24, 27) = <<76, 73, 83, 84>>
    /\ U32(Input, 28) = 5
    /\ DOMAIN blocks = {0, 2}
    /\ pos = Len(Input)

\* C7: a cartridge chunk larger than 16384 whose payload is whole gives the block of its
\* first 16384 bytes and leaves the handle at chunk start + 8 + chunk_size; no block of a
\* decoded dictionary is longer than 16384.
C7_OversizedChunk ==
    /\ [](\A k \in DOMAIN blocks : Len(blocks[k]) <= BLOCK_SIZE)
    /\ [][(InLoop /\ HeaderWhole /\ IsCartridge /\ TwoDigits /\ ChunkSize > BLOCK_SIZE /\ PayloadWhole) =>
            /\ err' = "none"
            /\ pos' = pos + 8 + ChunkSize
            /\ LET k == 10 * (ChunkId[3] - 48) + (ChunkId[4] - 48) IN
                /\ DOMAIN blocks' = DOMAIN blocks \cup {k}
                /\ blocks'[k] = SubSeq(Input, pos + 9, pos + 8 + BLOCK_SIZE)]_vars

\* cb00 of 20000 bytes was read, cb02 follows
C7_Witness ==
    /\ direction = "to-bin"
    /\ pc = "loop"
    /\ Len(Input) = 12 + 8 + 20000 + 11
    /\ U32(Input, 17) = 20000
    /\ pos = 12 + 8 + 20000
    /\ DOMAIN blocks = {0}
    /\ Len(blocks[0]) = BLOCK_SIZE

\* C9: the flat image convert_cpr_to_bin writes is the blocks present, in ascending index
\* order, each zero-padded to 16384 bytes; missing indices are not filled, so its length is
\* 16384 times the number of indices.
C9_Assembly ==
    (direction = "to-bin" /\ pc = "done") =>
        /\ Len(Output) = BLOCK_SIZE * Cardinality(DOMAIN blocks)
        /\ \A k \in DOMAIN blocks :
            LET at == BLOCK_SIZE * Cardinality({j \in DOMAIN blocks : j < k}) IN
            /\ SubSeq(Output, at + 1, at + Len(blocks[k])) = blocks[k]
            /\ \A i \in (at + Len(blocks[k]) + 1)..(at + BLOCK_SIZE) : Output[i] = 0

\* cb02 came before cb00 in the file; the image is block 0 then block 2
C9_Witness ==
    /\ direction = "to-bin"
    /\ run = 1
    /\ pc = "done"
    /\ Len(Input) = 12 + 11 + 11
    /\ SubSeq(Input, 13, 16) = <<99, 98, 48, 50>>
    /\ DOMAIN blocks = {0, 2}
    /\ Len(blocks[0]) = 3
    /\ Len(Output) = 2 * BLOCK_SIZE
    /\ SubSeq(Output, 1, 3) = blocks[0]
    /\ SubSeq(Output, BLOCK_SIZE + 1, BLOCK_SIZE + 3) = blocks[2]

\* C10: the loop of read_cpr_blocks ends, by a return or by an error, whatever the size
\* field says; an iteration that does not raise moves the handle on by at least 8 bytes.
C10_Termination ==
    /\ [][(pc = "loop" /\ pc' = "loop") => pos' >= pos + 8]_vars
    /\ (pc = "header") ~> (pc = "error" \/ pc = "decoded")

\* a chunk of size 0 was skipped at the very end of a file whose size field asks for more
C10_Witness ==
    /\ pc = "loop"
    /\ pos >= 20
    /\ U32(Input, pos - 3) = 0
    /\ pos = Len(Input)
    /\ pos < total_size + 8

====
